---- MODULE Spec2Model ----
(***************************************************************************)
(* Hybrid PoS -> PoA consensus engine (package hybrid).                    *)
(*                                                                         *)
(* The module holds five specifications over one set of variables:         *)
(*   Spec      one caller; every handler is one action, run to its return  *)
(*             (VerifyHeaders with its worker, until results is closed).   *)
(*   SpecBatch one call of VerifyHeaders at a time; the worker goroutine   *)
(*             runs step by step between the caller's cancel and receive   *)
(*             steps.                                                      *)
(*   SpecConc  NumThreads callers; every handler is cut at each access to  *)
(*             shared memory (the lock, the diagnostic fields, the         *)
(*             sub-engines).                                               *)
(*   SpecNew   the constructor New on present and absent engines.          *)
(*   SpecConfig the validation of the chain configuration (package params).*)
(* uint64 is scaled to WordBits bits; all wrap-around is kept.             *)
(***************************************************************************)
EXTENDS Integers, Sequences, FiniteSets, TLC

\* ------------------------------------------------------------------ bounds
WordBits == 4          \* width of the scaled uint64
MidHeight == 3         \* the transition height strictly inside the range
MaxBatch == 3          \* longest batch handed to VerifyHeaders
MaxTime == 22          \* last clock value (seconds)
NumThreads == 2        \* callers of SpecConc
MaxCalls == 3          \* hybrid calls started in one run of SpecConc
MaxCloses == 2         \* Close calls made on one instance

\* ------------------------------------------------------- program constants
extraVanity == 32
extraSeal == 65
AddressLength == 20
LogInterval == 10

UintMod == 2 ^ WordBits
MaxUint == UintMod - 1
AddU(a, b) == (a + b) % UintMod
SubU(a, b) == (a - b + UintMod) % UintMod

\* common.HexToAddress of the three literals
Addr1 == <<18, 52, 86, 120, 144, 18, 52, 86, 120, 144,
           18, 52, 86, 120, 144, 18, 52, 86, 120, 144>>
Addr2 == <<35, 69, 103, 137, 1, 35, 69, 103, 137, 1,
           35, 69, 103, 137, 1, 35, 69, 103, 137, 1>>
Addr3 == <<52, 86, 120, 144, 18, 52, 86, 120, 144, 18,
           52, 86, 120, 144, 18, 52, 86, 120, 144, 18>>
defaultInitialSigners == <<Addr1, Addr2, Addr3>>

\* the two engines handed to New, and the outcome of a call on one of them
PoS == "PoS"
PoA == "PoA"
Nil == "nil"
ErrOf(engine) == IF engine = PoS THEN "errPoS" ELSE "errPoA"
\* trackingMockEngine.getError: nil, or the error configured for the method
EngineErrors(engine) == {Nil, ErrOf(engine)}

VARIABLES
  posEngine, poaEngine, transitionBlock, initialSigners,   \* Hybrid, immutable
  mu, transitionLogged, lastLoggedEngine, lastLogTime,     \* Hybrid, diagnostics
  transitionEvents,  \* "Consensus engine transition occurred" lines in the log
  dispatchLog,       \* the last "Using consensus engine" line in the log
  now,                                                     \* wall clock
  header,                                                  \* the caller's header
  calls,         \* sub-engine calls made by the hybrid call in progress or last made
  ret,           \* what the last hybrid call returned
  servedEras,    \* the engines this instance has delegated to so far
  headers, quit, results, resultsClosed, worker, received, \* VerifyHeaders
  pc, local, started, engineCalls,                         \* SpecConc
  closeCalls,    \* Close calls each sub-engine has received so far
  input, output  \* the arguments and the outcome of the constructor call

hybridVars == <<posEngine, poaEngine, transitionBlock, initialSigners>>
diagVars ==
  <<transitionLogged, lastLoggedEngine, lastLogTime, transitionEvents,
    dispatchLog>>
batchVars == <<headers, quit, results, resultsClosed, worker, received>>
concVars == <<pc, local, started, engineCalls>>
ioVars == <<input, output>>
vars == <<hybridVars, mu, diagVars, now, header, calls, ret, servedEras,
          batchVars, concVars, ioVars, closeCalls>>

\* ------------------------------------------------------------ input sets
TransitionHeights == {0, MidHeight, MaxUint}
\* block numbers around the boundary and at both ends of the range
BlockNumbers(H) == {SubU(H, 1), H, AddU(H, 1), 0, MaxUint}
\* extra of a header as the caller built it: empty, or a PoS-era payload
CallerExtras == {<<>>, <<112, 111, 115>>}
NoHeader == [number |-> 0, extra |-> <<>>]
Threads == 1 .. NumThreads

\* ------------------------------------------------------- pure helpers
Zeros(n) == [i \in 1 .. n |-> 0]
\* copy(dst[off:], src): overwrite dst from 0-based offset off, up to len(dst)
CopyAt(dst, off, src) ==
  [i \in 1 .. Len(dst) |->
     IF i > off /\ i <= off + Len(src) THEN src[i - off] ELSE dst[i]]

RECURSIVE CopySigners(_, _, _)
\* the loop "for i, signer := range h.initialSigners", i counted from 0
CopySigners(extraData, signers, i) ==
  IF i >= Len(signers) THEN extraData
  ELSE CopySigners(CopyAt(extraData, extraVanity + i * AddressLength, signers[i + 1]),
                   signers, i + 1)

\* mutant: the signers copied from offset 0, over the vanity
RECURSIVE CopySigners_NoVanity(_, _, _)
CopySigners_NoVanity(extraData, signers, i) ==
  IF i >= Len(signers) THEN extraData
  ELSE CopySigners_NoVanity(CopyAt(extraData, i * AddressLength, signers[i + 1]),
                            signers, i + 1)
TransitionExtra_NoVanity(signers) ==
  CopySigners_NoVanity(Zeros(extraVanity + Len(signers) * AddressLength + extraSeal),
                       signers, 0)

\* extraData as prepareTransitionBlock builds it
TransitionExtra(signers) ==
  CopySigners(Zeros(extraVanity + Len(signers) * AddressLength + extraSeal), signers, 0)

\* one call on a sub-engine: the method, the argument it got, what it returned
EngineCall(engine, method, arg, err) ==
  [engine |-> engine, method |-> method, arg |-> arg, err |-> err]
Returned(op, number, err) == [op |-> op, number |-> number, err |-> err]

\* ------------------------------------------------------- engine selection
\* mutant: the boundary taken one block late
shouldUsePoA_After(blockNumber) == blockNumber > transitionBlock

\* mutant: the comparison made against the wrapped H - 1 of the diagnostic
shouldUsePoA_AboveBoundary(blockNumber) == blockNumber > SubU(transitionBlock, 1)

\* mutant: the comparison made on the wrapped blockNumber + 1
shouldUsePoA_BelowNext(blockNumber) == AddU(blockNumber, 1) > transitionBlock

shouldUsePoA(blockNumber) == blockNumber >= transitionBlock

\* the boundary diagnostic of shouldUsePoA, in unsigned arithmetic
atTransitionBoundary(blockNumber) ==
  \/ blockNumber = SubU(transitionBlock, 1)
  \/ blockNumber = transitionBlock
  \/ blockNumber = AddU(transitionBlock, 1)

engineName(usePoA) == IF usePoA THEN "PoA" ELSE "PoS"
currentEngineName(blockNumber) == engineName(shouldUsePoA(blockNumber))

\* mutant: once the transition has been logged the PoA engine is returned
engineFor_Sticky(usePoA) == IF usePoA \/ transitionLogged THEN poaEngine ELSE posEngine

\* "if usePoA { return h.poaEngine }; return h.posEngine"
engineFor(usePoA) == IF usePoA THEN poaEngine ELSE posEngine

\* the engine selectEngine returns
selectEngine(blockNumber) == engineFor(shouldUsePoA(blockNumber))

\* mutant: the first selection at or past the transition block emits
emitsTransition_FromTransition(blockNumber) ==
  blockNumber >= transitionBlock /\ ~transitionLogged

\* "blockNumber == h.transitionBlock && !h.transitionLogged"
emitsTransition(blockNumber) == blockNumber = transitionBlock /\ ~transitionLogged

\* "h.lastLoggedEngine != currentEngine || now.Sub(h.lastLogTime) > 10*time.Second"
emitsDispatchLog(blockNumber, logged, loggedAt, t) ==
  logged # currentEngineName(blockNumber) \/ t - loggedAt > LogInterval

\* the log after one more "Using consensus engine" line: the engine named,
\* the time of the selection, and a mark that tells the line from the last
DispatchLine(engine, t) ==
  [engine |-> engine, time |-> t, seq |-> 1 - dispatchLog.seq]

NoDispatchLine == [engine |-> "", time |-> 0, seq |-> 0]

\* what one whole run of selectEngine does to the diagnostic fields
selectEngineLog(blockNumber) ==
  /\ transitionLogged' = (transitionLogged \/ emitsTransition(blockNumber))
  /\ transitionEvents' =
       transitionEvents + (IF emitsTransition(blockNumber) THEN 1 ELSE 0)
  /\ IF emitsDispatchLog(blockNumber, lastLoggedEngine, lastLogTime, now)
     THEN /\ lastLoggedEngine' = currentEngineName(blockNumber)
          /\ lastLogTime' = now
          /\ dispatchLog' = DispatchLine(currentEngineName(blockNumber), now)
     ELSE UNCHANGED <<lastLoggedEngine, lastLogTime, dispatchLog>>

\* mutant: the inline comparison takes block H itself for a PoS block
AuthorEngine_ThroughTransition(blockNumber) ==
  IF blockNumber <= transitionBlock THEN posEngine ELSE poaEngine

\* the inline comparisons of Author, VerifyHeader and VerifyUncles
AuthorEngine(blockNumber) ==
  IF blockNumber < transitionBlock THEN posEngine ELSE poaEngine
\* mutant: the era of what the instance served last, not of the header
VerifyHeaderEngine_ByHead(blockNumber) ==
  IF poaEngine \in servedEras \/ blockNumber >= transitionBlock
  THEN poaEngine ELSE posEngine

VerifyHeaderEngine(blockNumber) ==
  IF blockNumber < transitionBlock THEN posEngine ELSE poaEngine
VerifyUnclesEngine(blockNumber) ==
  IF blockNumber < transitionBlock THEN posEngine ELSE poaEngine

\* ------------------------------------------------------------ construction
\* New(posEngine, poaEngine, transitionBlock) with both engines present
New(pos, poa, H) ==
  /\ posEngine = pos
  /\ poaEngine = poa
  /\ transitionBlock = H
  /\ initialSigners = defaultInitialSigners
  /\ mu = [readers |-> {}, writer |-> FALSE]
  /\ transitionLogged = FALSE
  /\ lastLoggedEngine = ""
  /\ lastLogTime = 0
  /\ transitionEvents = 0
  /\ dispatchLog = NoDispatchLine

\* the worker goroutine of VerifyHeaders: where it stands, the header it is at,
\* the outcome it holds, whose channels the caller was given, and how many
\* results it has sent with the cancel channel already closed
NoWorker ==
  [pc |-> "none", idx |-> 0, err |-> Nil, chans |-> "none", afterCancel |-> 0,
   callsAfterCancel |-> 0]
NoBatch ==
  /\ headers = <<>>
  /\ quit = "open"
  /\ results = <<>>
  /\ resultsClosed = FALSE
  /\ worker = NoWorker
  /\ received = <<>>
\* a thread's frame: the operation, the number of the header it passed, the
\* number the engine is selected for, the locals usePoA and now, the engine
\* selected and the sub-engine calls made
NoCall == [op |-> "", number |-> 0, blockNumber |-> 0, usePoA |-> FALSE,
           now |-> 0, engine |-> "", wroteExtra |-> FALSE, made |-> <<>>]
NoThreads ==
  /\ pc = [t \in Threads |-> "idle"]
  /\ local = [t \in Threads |-> NoCall]
  /\ started = 0
  /\ engineCalls = [e \in {PoS, PoA} |-> 0]

\* the zero time.Time lies more than LogInterval before any clock reading
StartTime == LogInterval + 1

\* what New returned: whether an instance came back, and the error
NewOutput(instance, err) == [op |-> "New", instance |-> instance, err |-> err]

Init ==
  /\ \E H \in TransitionHeights :
       /\ New(PoS, PoA, H)
       /\ input = [posEngine |-> PoS, poaEngine |-> PoA, transitionBlock |-> H]
  /\ output = NewOutput(TRUE, Nil)
  /\ closeCalls = [e \in {PoS, PoA} |-> 0]
  /\ now = StartTime
  /\ header = NoHeader
  /\ calls = <<>>
  /\ ret = Returned("New", 0, Nil)
  /\ servedEras = {}
  /\ NoBatch
  /\ NoThreads

\* --------------------------------------------------- the caller and the clock
\* the caller builds a header; the record of the last call starts afresh
NewHeader ==
  /\ \E n \in BlockNumbers(transitionBlock), extra \in CallerExtras :
       header' = [number |-> n, extra |-> extra]
  /\ calls' = <<>>
  /\ ret' = Returned("NewHeader", 0, Nil)
  /\ UNCHANGED <<hybridVars, ioVars, closeCalls, mu, diagVars, now, servedEras, batchVars, concVars>>

Tick ==
  /\ \E d \in {LogInterval, LogInterval + 1} :
       /\ now + d <= MaxTime
       /\ now' = now + d
  /\ UNCHANGED <<hybridVars, ioVars, closeCalls, mu, diagVars, header, calls, ret, servedEras,
                 batchVars, concVars>>

\* ------------------------------------------- handlers, one action per call
\* mutant: a failure of the sub-engine is replaced by an error of the hybrid
Delegate_Wrap(op, engine) ==
  /\ \E err \in EngineErrors(engine) :
       /\ calls' = <<EngineCall(engine, op, header, err)>>
       /\ ret' = Returned(op, header.number, IF err = Nil THEN Nil ELSE "errHybrid")
  /\ servedEras' = servedEras \cup {engine}

\* a call of `method` on `engine` with the caller's header, returning any
\* outcome of the sub-engine; the hybrid returns that outcome
Delegate(op, engine) ==
  /\ \E err \in EngineErrors(engine) :
       /\ calls' = <<EngineCall(engine, op, header, err)>>
       /\ ret' = Returned(op, header.number, err)
  /\ servedEras' = servedEras \cup {engine}

\* as Delegate, for the operations that return no error
DelegateNoErr(op, engine) ==
  /\ calls' = <<EngineCall(engine, op, header, Nil)>>
  /\ ret' = Returned(op, header.number, Nil)
  /\ servedEras' = servedEras \cup {engine}

Author ==
  /\ Delegate("Author", AuthorEngine(header.number))
  /\ UNCHANGED <<hybridVars, ioVars, closeCalls, mu, diagVars, now, header, batchVars, concVars>>

VerifyHeader ==
  /\ Delegate("VerifyHeader", VerifyHeaderEngine(header.number))
  /\ UNCHANGED <<hybridVars, ioVars, closeCalls, mu, diagVars, now, header, batchVars, concVars>>

VerifyUncles ==
  /\ Delegate("VerifyUncles", VerifyUnclesEngine(header.number))
  /\ UNCHANGED <<hybridVars, ioVars, closeCalls, mu, diagVars, now, header, batchVars, concVars>>

\* mutant: the PoA engine's Prepare is called before extra is written
prepareTransitionBlock_CallFirst ==
  /\ header' = [header EXCEPT !.extra = TransitionExtra(initialSigners)]
  /\ \E err \in EngineErrors(poaEngine) :
       /\ calls' = <<EngineCall(poaEngine, "Prepare", header, err)>>
       /\ ret' = Returned("Prepare", header.number, err)
  /\ servedEras' = servedEras \cup {poaEngine}
  /\ UNCHANGED diagVars

\* mutant: extra is restored when the PoA engine's Prepare fails
prepareTransitionBlock_Rollback ==
  LET prepared == [header EXCEPT !.extra = TransitionExtra(initialSigners)]
  IN /\ \E err \in EngineErrors(poaEngine) :
          /\ calls' = <<EngineCall(poaEngine, "Prepare", prepared, err)>>
          /\ ret' = Returned("Prepare", header.number, err)
          /\ header' = IF err = Nil THEN prepared ELSE header
     /\ servedEras' = servedEras \cup {poaEngine}
     /\ UNCHANGED diagVars

\* what Prepare at the transition block returned, and the extra the header
\* came with
PrepareReturned(err) ==
  [op |-> "Prepare", number |-> header.number, err |-> err,
   extraBefore |-> header.extra]

\* mutant: extraData is appended to the extra the header came with
prepareTransitionBlock_Append ==
  LET prepared ==
        [header EXCEPT !.extra = header.extra \o TransitionExtra(initialSigners)]
  IN /\ header' = prepared
     /\ \E err \in EngineErrors(poaEngine) :
          /\ calls' = <<EngineCall(poaEngine, "Prepare", prepared, err)>>
          /\ ret' = PrepareReturned(err)
     /\ servedEras' = servedEras \cup {poaEngine}
     /\ UNCHANGED diagVars

\* prepareTransitionBlock: write extra, then the PoA engine's Prepare on the
\* header as written
prepareTransitionBlock ==
  LET prepared == [header EXCEPT !.extra = TransitionExtra(initialSigners)]
  IN /\ header' = prepared
     /\ \E err \in EngineErrors(poaEngine) :
          /\ calls' = <<EngineCall(poaEngine, "Prepare", prepared, err)>>
          /\ ret' = PrepareReturned(err)
     /\ servedEras' = servedEras \cup {poaEngine}
     /\ UNCHANGED diagVars

\* mutant: every block from the transition on is prepared as a checkpoint
isTransitionBlock_From(blockNumber) == blockNumber >= transitionBlock

\* "blockNumber == h.transitionBlock" in Prepare
isTransitionBlock(blockNumber) == blockNumber = transitionBlock

\* mutant: preparing the transition block uses up the first authority
Prepare_ConsumeSigner ==
  /\ IF isTransitionBlock(header.number)
     THEN /\ prepareTransitionBlock
          /\ initialSigners' = Tail(initialSigners)
          /\ UNCHANGED <<posEngine, poaEngine, transitionBlock>>
     ELSE /\ selectEngineLog(header.number)
          /\ Delegate("Prepare", selectEngine(header.number))
          /\ UNCHANGED <<header, hybridVars>>
  /\ UNCHANGED <<ioVars, closeCalls, mu, now, batchVars, concVars>>

Prepare ==
  /\ IF isTransitionBlock(header.number)
     THEN prepareTransitionBlock
     ELSE /\ selectEngineLog(header.number)
          /\ Delegate("Prepare", selectEngine(header.number))
          /\ UNCHANGED header
  /\ UNCHANGED <<hybridVars, ioVars, closeCalls, mu, now, batchVars, concVars>>

Finalize ==
  /\ selectEngineLog(header.number)
  /\ DelegateNoErr("Finalize", selectEngine(header.number))
  /\ UNCHANGED <<hybridVars, ioVars, closeCalls, mu, now, header, batchVars, concVars>>

FinalizeAndAssemble ==
  /\ selectEngineLog(header.number)
  /\ Delegate("FinalizeAndAssemble", selectEngine(header.number))
  /\ UNCHANGED <<hybridVars, ioVars, closeCalls, mu, now, header, batchVars, concVars>>

\* the channels a caller of Seal brings: results (chan<- *types.Block) and
\* stop (<-chan struct{})
ResultChannels == {"results1", "results2"}
StopChannels == {"stop1", "stop2"}

\* the PoS or PoA engine's Seal as called with the channels res and stop
SealCall(engine, res, stop, err) ==
  [engine |-> engine, method |-> "Seal", arg |-> header, err |-> err,
   results |-> res, stop |-> stop]

\* what Seal returned, with the channels the caller had passed
SealReturned(res, stop, err) ==
  [op |-> "Seal", number |-> header.number, err |-> err,
   results |-> res, stop |-> stop]

\* mutant: the engine is given a stop channel of the hybrid's own
Seal_OwnStop ==
  /\ selectEngineLog(header.number)
  /\ \E res \in ResultChannels, stop \in StopChannels,
        err \in EngineErrors(selectEngine(header.number)) :
       /\ calls' = <<SealCall(selectEngine(header.number), res, "hybrid", err)>>
       /\ ret' = SealReturned(res, stop, err)
  /\ servedEras' = servedEras \cup {selectEngine(header.number)}
  /\ UNCHANGED <<hybridVars, ioVars, closeCalls, mu, now, header, batchVars, concVars>>

\* "err := engine.Seal(chain, block, results, stop)"
Seal ==
  /\ selectEngineLog(header.number)
  /\ \E res \in ResultChannels, stop \in StopChannels,
        err \in EngineErrors(selectEngine(header.number)) :
       /\ calls' = <<SealCall(selectEngine(header.number), res, stop, err)>>
       /\ ret' = SealReturned(res, stop, err)
  /\ servedEras' = servedEras \cup {selectEngine(header.number)}
  /\ UNCHANGED <<hybridVars, ioVars, closeCalls, mu, now, header, batchVars, concVars>>

SealHash ==
  /\ selectEngineLog(header.number)
  /\ DelegateNoErr("SealHash", selectEngine(header.number))
  /\ UNCHANGED <<hybridVars, ioVars, closeCalls, mu, now, header, batchVars, concVars>>

\* "nextBlockNumber := parent.Number.Uint64() + 1", the caller's header being
\* the parent
nextBlockNumber(parentNumber) == AddU(parentNumber, 1)

CalcDifficulty ==
  /\ selectEngineLog(nextBlockNumber(header.number))
  /\ DelegateNoErr("CalcDifficulty", selectEngine(nextBlockNumber(header.number)))
  /\ UNCHANGED <<hybridVars, ioVars, closeCalls, mu, now, header, batchVars, concVars>>

\* the sub-engines' count of the Close calls they received
\* (trackingMockEngine.recordCall), after the calls `made`
closed(made) ==
  [e \in {PoS, PoA} |->
     closeCalls[e] + Cardinality({k \in 1 .. Len(made) : made[k].engine = e})]

\* mutant: the last failure instead of the first
closeResult_Last(err1, err2) == IF err2 # Nil THEN err2 ELSE err1

\* "if err1 != nil { return err1 }; return err2"
closeResult(err1, err2) == IF err1 # Nil THEN err1 ELSE err2

\* mutant: Close returns as soon as the PoS engine's Close fails
Close_EarlyReturn ==
  /\ \A e \in {PoS, PoA} : closeCalls[e] < MaxCloses
  /\ \E err1 \in EngineErrors(posEngine), err2 \in EngineErrors(poaEngine) :
       /\ calls' = IF err1 # Nil
                   THEN <<EngineCall(posEngine, "Close", NoHeader, err1)>>
                   ELSE <<EngineCall(posEngine, "Close", NoHeader, err1),
                          EngineCall(poaEngine, "Close", NoHeader, err2)>>
       /\ closeCalls' = closed(calls')
       /\ ret' = Returned("Close", 0, closeResult(err1, err2))
  /\ UNCHANGED <<hybridVars, ioVars, mu, diagVars, now, header, servedEras,
                 batchVars, concVars>>

\* mutant: a Close after the first reaches the PoS engine only
Close_Once ==
  /\ \A e \in {PoS, PoA} : closeCalls[e] < MaxCloses
  /\ \E err1 \in EngineErrors(posEngine), err2 \in EngineErrors(poaEngine) :
       /\ calls' = IF closeCalls[posEngine] > 0
                   THEN <<EngineCall(posEngine, "Close", NoHeader, err1)>>
                   ELSE <<EngineCall(posEngine, "Close", NoHeader, err1),
                          EngineCall(poaEngine, "Close", NoHeader, err2)>>
       /\ closeCalls' = closed(calls')
       /\ ret' = Returned("Close", 0,
                          IF closeCalls[posEngine] > 0 THEN err1
                          ELSE closeResult(err1, err2))
  /\ UNCHANGED <<hybridVars, ioVars, mu, diagVars, now, header, servedEras,
                 batchVars, concVars>>

Close ==
  /\ \A e \in {PoS, PoA} : closeCalls[e] < MaxCloses
  /\ \E err1 \in (IF posEngine # Nil THEN EngineErrors(posEngine) ELSE {Nil}),
        err2 \in (IF poaEngine # Nil THEN EngineErrors(poaEngine) ELSE {Nil}) :
       /\ calls' =
            (IF posEngine # Nil
             THEN <<EngineCall(posEngine, "Close", NoHeader, err1)>> ELSE <<>>)
            \o (IF poaEngine # Nil
                THEN <<EngineCall(poaEngine, "Close", NoHeader, err2)>> ELSE <<>>)
       /\ closeCalls' = closed(calls')
       /\ ret' = Returned("Close", 0, closeResult(err1, err2))
  /\ UNCHANGED <<hybridVars, ioVars, mu, diagVars, now, header, servedEras,
                 batchVars, concVars>>

\* ------------------------------------------------------------ VerifyHeaders
BatchNumbers(H) == {SubU(H, 1), H, AddU(H, 1)}
Batches(H) ==
  UNION {[1 .. k -> [number : BatchNumbers(H), extra : {<<>>}]] : k \in 0 .. MaxBatch}

\* mutant: no test for the empty batch
batchPath_NoEmpty(hs) ==
  IF Len(hs) = 0 \/ hs[Len(hs)].number < transitionBlock THEN "bulkPoS"
  ELSE IF hs[1].number >= transitionBlock THEN "bulkPoA"
  ELSE "split"

\* mutant: the era of the first header decides for the whole batch
batchPath_FirstOnly(hs) ==
  IF Len(hs) = 0 THEN "empty"
  ELSE IF hs[1].number < transitionBlock THEN "bulkPoS"
  ELSE "bulkPoA"

\* the branch VerifyHeaders takes: it reads the first and the last number only
batchPath(hs) ==
  IF Len(hs) = 0 THEN "empty"
  ELSE IF hs[Len(hs)].number < transitionBlock THEN "bulkPoS"
  ELSE IF hs[1].number >= transitionBlock THEN "bulkPoA"
  ELSE "split"

\* trackingMockEngine.VerifyHeaders: both channels are the engine's own; quit is
\* closed at once, results carries the configured error once per header (or
\* nothing) and is closed
bulkForward(engine, hs) ==
  \E err \in EngineErrors(engine) :
    /\ calls' = <<EngineCall(engine, "VerifyHeaders", hs, err)>>
    /\ results' = IF err = Nil THEN <<>> ELSE [i \in 1 .. Len(hs) |-> err]
    /\ resultsClosed' = TRUE
    /\ quit' = "closed"
    /\ worker' = [NoWorker EXCEPT !.pc = "bulk", !.chans = engine]
    /\ servedEras' = servedEras \cup {engine}

VerifyHeaders ==
  /\ worker.pc = "none"
  /\ \E hs \in Batches(transitionBlock) :
       /\ headers' = hs
       /\ received' = <<>>
       /\ ret' = Returned("VerifyHeaders", 0, Nil)
       /\ CASE batchPath(hs) = "empty" ->
                 /\ quit' = "closed"
                 /\ results' = <<>>
                 /\ resultsClosed' = TRUE
                 /\ worker' = [NoWorker EXCEPT !.pc = "empty", !.chans = "hybrid"]
                 /\ calls' = <<>>
                 /\ UNCHANGED servedEras
            [] batchPath(hs) = "bulkPoS" -> bulkForward(posEngine, hs)
            [] batchPath(hs) = "bulkPoA" -> bulkForward(poaEngine, hs)
            [] batchPath(hs) = "split" ->
                 /\ quit' = "open"
                 /\ results' = <<>>
                 /\ resultsClosed' = FALSE
                 /\ worker' = [NoWorker EXCEPT !.pc = "loop", !.idx = 1, !.chans = "hybrid"]
                 /\ calls' = <<>>
                 /\ UNCHANGED servedEras
  /\ UNCHANGED <<hybridVars, ioVars, closeCalls, mu, diagVars, now, header, concVars>>

\* mutant: the loop does not look at the cancel channel
WorkerSelect_NoCheck ==
  /\ worker.pc = "loop"
  /\ IF worker.idx > Len(headers)
     THEN /\ worker' = [worker EXCEPT !.pc = "done"]
          /\ resultsClosed' = TRUE
     ELSE /\ worker' = [worker EXCEPT !.pc = "verify"]
          /\ UNCHANGED resultsClosed
  /\ UNCHANGED <<hybridVars, ioVars, closeCalls, mu, diagVars, now, header, calls, ret, servedEras,
                 headers, quit, results, received, concVars>>

\* the worker at the top of the loop: the range test, then
\* "select { case <-quit: return; default: ... }"; returning closes results
WorkerSelect ==
  /\ worker.pc = "loop"
  /\ IF worker.idx > Len(headers) \/ quit = "closed"
     THEN /\ worker' = [worker EXCEPT !.pc = "done"]
          /\ resultsClosed' = TRUE
     ELSE /\ worker' = [worker EXCEPT !.pc = "verify"]
          /\ UNCHANGED resultsClosed
  /\ UNCHANGED <<hybridVars, ioVars, closeCalls, mu, diagVars, now, header, calls, ret, servedEras,
                 headers, quit, results, received, concVars>>

\* "err := h.VerifyHeader(chain, header)" in the worker
WorkerVerify ==
  /\ worker.pc = "verify"
  /\ LET h == headers[worker.idx]
         engine == VerifyHeaderEngine(h.number)
     IN /\ \E err \in EngineErrors(engine) :
             /\ calls' = Append(calls, EngineCall(engine, "VerifyHeader", h, err))
             /\ worker' = [worker EXCEPT !.pc = "send", !.err = err,
                                          !.callsAfterCancel =
                                            IF quit = "closed" THEN @ + 1 ELSE @]
        /\ servedEras' = servedEras \cup {engine}
  /\ UNCHANGED <<hybridVars, ioVars, closeCalls, mu, diagVars, now, header, ret,
                 headers, quit, results, resultsClosed, received, concVars>>

\* mutant: the results channel buffers one value, as the empty batch's does
resultsCapacity_One(hs) == 1

\* "results := make(chan error, len(headers))": the buffer of the split path
resultsCapacity(hs) == Len(hs)

\* mutant: the newest result is put in front of the ones waiting
WorkerSend_Front ==
  /\ worker.pc = "send"
  /\ \/ /\ Len(results) < resultsCapacity(headers)
        /\ results' = <<worker.err>> \o results
        /\ worker' = [worker EXCEPT !.pc = "loop", !.idx = @ + 1,
                                     !.afterCancel = IF quit = "closed" THEN @ + 1 ELSE @]
        /\ UNCHANGED resultsClosed
     \/ /\ quit = "closed"
        /\ worker' = [worker EXCEPT !.pc = "done"]
        /\ resultsClosed' = TRUE
        /\ UNCHANGED results
  /\ UNCHANGED <<hybridVars, ioVars, closeCalls, mu, diagVars, now, header, calls, ret, servedEras,
                 headers, quit, received, concVars>>

\* "select { case results <- err: ; case <-quit: return }": the send goes
\* through while the buffer has room; with quit closed either case may run
WorkerSend ==
  /\ worker.pc = "send"
  /\ \/ /\ Len(results) < resultsCapacity(headers)
        /\ results' = Append(results, worker.err)
        /\ worker' = [worker EXCEPT !.pc = "loop", !.idx = @ + 1,
                                     !.afterCancel = IF quit = "closed" THEN @ + 1 ELSE @]
        /\ UNCHANGED resultsClosed
     \/ /\ quit = "closed"
        /\ worker' = [worker EXCEPT !.pc = "done"]
        /\ resultsClosed' = TRUE
        /\ UNCHANGED results
  /\ UNCHANGED <<hybridVars, ioVars, closeCalls, mu, diagVars, now, header, calls, ret, servedEras,
                 headers, quit, received, concVars>>

\* the caller closes the cancel channel it was given
CallerCancel ==
  /\ worker.pc \in {"loop", "verify", "send", "done"}
  /\ quit = "open"
  /\ quit' = "closed"
  /\ UNCHANGED <<hybridVars, ioVars, closeCalls, mu, diagVars, now, header, calls, ret, servedEras,
                 headers, results, resultsClosed, worker, received, concVars>>

\* the caller takes the next value off the results channel
CallerReceive ==
  /\ worker.pc # "none"
  /\ results # <<>>
  /\ received' = Append(received, Head(results))
  /\ results' = Tail(results)
  /\ UNCHANGED <<hybridVars, ioVars, closeCalls, mu, diagVars, now, header, calls, ret, servedEras,
                 headers, quit, resultsClosed, worker, concVars>>

\* the caller drops both channels once the batch is over
CallerRelease ==
  /\ worker.pc \in {"empty", "bulk", "done"}
  /\ headers' = <<>>
  /\ quit' = "open"
  /\ results' = <<>>
  /\ resultsClosed' = FALSE
  /\ worker' = NoWorker
  /\ received' = <<>>
  /\ UNCHANGED <<hybridVars, ioVars, closeCalls, mu, diagVars, now, header, calls, ret, servedEras,
                 concVars>>

\* ------------------------------------------------- one batch at a time
NextBatch ==
  \/ VerifyHeaders \/ WorkerSelect \/ WorkerVerify \/ WorkerSend
  \/ CallerCancel \/ CallerReceive \/ CallerRelease

SpecBatch == Init /\ [][NextBatch]_vars

\* the worker goroutine is scheduled and every sub-engine VerifyHeader call
\* returns: each of its steps is taken once it stays possible; nothing is
\* assumed of the caller, who may never receive and never cancel
SpecBatchFair ==
  /\ Init /\ [][NextBatch]_vars
  /\ WF_vars(WorkerSelect) /\ WF_vars(WorkerVerify) /\ WF_vars(WorkerSend)

\* ------------------------------------------------------------ one caller
\* the engine calls of the worker on headers i .. Len(hs), never cancelled,
\* the sub-engines returning errs
RECURSIVE workerCalls(_, _, _)
workerCalls(hs, errs, i) ==
  IF i > Len(hs) THEN <<>>
  ELSE <<EngineCall(VerifyHeaderEngine(hs[i].number), "VerifyHeader", hs[i], errs[i])>>
       \o workerCalls(hs, errs, i + 1)

\* the batch a caller walking the chain builds: k headers numbered upwards
\* from its own header
chainBatch(k) ==
  [i \in 1 .. k |-> [number |-> AddU(header.number, i - 1), extra |-> header.extra]]

\* VerifyHeaders on such a batch, the caller then draining the results
\* channel without cancelling
VerifyHeadersDrain ==
  /\ \E k \in 0 .. MaxBatch :
       LET batch == chainBatch(k)
           path == batchPath(batch)
       IN CASE path = "empty" ->
                 /\ calls' = <<>>
                 /\ ret' = [op |-> "VerifyHeaders", number |-> 0, err |-> Nil,
                            path |-> path, results |-> <<>>, batch |-> batch,
                            chans |-> "hybrid", worker |-> FALSE]
                 /\ UNCHANGED servedEras
            [] path \in {"bulkPoS", "bulkPoA"} ->
                 LET engine == IF path = "bulkPoS" THEN posEngine ELSE poaEngine
                 IN \E err \in EngineErrors(engine) :
                      /\ calls' = <<EngineCall(engine, "VerifyHeaders", batch, err)>>
                      /\ ret' = [op |-> "VerifyHeaders", number |-> 0, err |-> Nil,
                                 path |-> path,
                                 results |-> IF err = Nil THEN <<>>
                                             ELSE [i \in 1 .. Len(batch) |-> err],
                                 batch |-> batch, chans |-> engine,
                                 worker |-> FALSE]
                      /\ servedEras' = servedEras \cup {engine}
            [] path = "split" ->
                 \E errs \in [1 .. Len(batch) -> {Nil, ErrOf(PoS), ErrOf(PoA)}] :
                   LET made == workerCalls(batch, errs, 1)
                   IN /\ \A i \in 1 .. Len(batch) :
                           errs[i] \in EngineErrors(made[i].engine)
                      /\ calls' = made
                      /\ ret' = [op |-> "VerifyHeaders", number |-> 0, err |-> Nil,
                                 path |-> path, results |-> errs,
                                 batch |-> batch, chans |-> "hybrid",
                                 worker |-> TRUE]
                      /\ servedEras' =
                           servedEras \cup {made[i].engine : i \in 1 .. Len(batch)}
  /\ UNCHANGED <<hybridVars, ioVars, closeCalls, mu, diagVars, now, header, batchVars, concVars>>

Next ==
  \/ NewHeader \/ Tick
  \/ Author \/ VerifyHeader \/ VerifyUncles \/ Prepare \/ Finalize
  \/ FinalizeAndAssemble \/ Seal \/ SealHash \/ CalcDifficulty \/ Close
  \/ VerifyHeadersDrain

Spec == Init /\ [][Next]_vars

\* =========================================================== SpecConc
\* Every handler cut at its accesses to shared memory. selectEngine reads and
\* writes the diagnostic fields outside the lock, so those accesses interleave.
InlineOps == {"Author", "VerifyHeader", "VerifyUncles"}
\* the operations of TestConcurrentAccess that go through selectEngine, and
\* Prepare
SelectOps == {"SealHash", "CalcDifficulty", "Prepare"}

inlineEngine(op, blockNumber) ==
  CASE op = "Author" -> AuthorEngine(blockNumber)
    [] op = "VerifyHeader" -> VerifyHeaderEngine(blockNumber)
    [] op = "VerifyUncles" -> VerifyUnclesEngine(blockNumber)

sharedFrame == <<hybridVars, ioVars, closeCalls, now, header, calls, ret, servedEras, batchVars>>

\* a thread enters a handler with a header numbered n
Call(t) ==
  /\ pc[t] = "idle"
  /\ started < MaxCalls
  /\ started' = started + 1
  /\ \E op \in InlineOps \cup SelectOps, n \in BatchNumbers(transitionBlock) :
       LET frame == [NoCall EXCEPT !.op = op, !.number = n]
       IN IF op \in InlineOps
          THEN /\ local' = [local EXCEPT ![t] =
                              [frame EXCEPT !.blockNumber = n,
                                            !.engine = inlineEngine(op, n)]]
               /\ pc' = [pc EXCEPT ![t] = "delegate"]
          ELSE IF op = "Prepare" /\ isTransitionBlock(n)
          THEN /\ local' = [local EXCEPT ![t] =
                              [frame EXCEPT !.blockNumber = n,
                                            !.wroteExtra = TRUE,
                                            !.engine = poaEngine]]
               /\ pc' = [pc EXCEPT ![t] = "delegate"]
          ELSE /\ local' = [local EXCEPT ![t] =
                              [frame EXCEPT !.blockNumber =
                                 IF op = "CalcDifficulty" THEN nextBlockNumber(n)
                                 ELSE n]]
               /\ pc' = [pc EXCEPT ![t] = "rlock"]
  /\ UNCHANGED <<sharedFrame, mu, diagVars, engineCalls>>

\* shouldUsePoA: "h.mu.RLock()"
RLock(t) ==
  /\ pc[t] = "rlock"
  /\ ~mu.writer
  /\ mu' = [mu EXCEPT !.readers = @ \cup {t}]
  /\ pc' = [pc EXCEPT ![t] = "runlock"]
  /\ UNCHANGED <<sharedFrame, diagVars, local, started, engineCalls>>

\* mutant: the read lock is kept until the handler has returned
RUnlock_Held(t) ==
  /\ pc[t] = "runlock"
  /\ local' = [local EXCEPT ![t].usePoA = shouldUsePoA(local[t].blockNumber)]
  /\ pc' = [pc EXCEPT ![t] = "checkTransition"]
  /\ UNCHANGED <<sharedFrame, mu, diagVars, started, engineCalls>>

\* shouldUsePoA: the comparison, then the deferred "h.mu.RUnlock()"
RUnlock(t) ==
  /\ pc[t] = "runlock"
  /\ local' = [local EXCEPT ![t].usePoA = shouldUsePoA(local[t].blockNumber)]
  /\ mu' = [mu EXCEPT !.readers = @ \ {t}]
  /\ pc' = [pc EXCEPT ![t] = "checkTransition"]
  /\ UNCHANGED <<sharedFrame, diagVars, started, engineCalls>>

\* selectEngine: the read of transitionLogged
CheckTransition(t) ==
  /\ pc[t] = "checkTransition"
  /\ pc' = [pc EXCEPT ![t] =
              IF emitsTransition(local[t].blockNumber) THEN "setLogged" ELSE "readClock"]
  /\ UNCHANGED <<sharedFrame, mu, diagVars, local, started, engineCalls>>

\* selectEngine: "h.transitionLogged = true" and the two log lines
SetLogged(t) ==
  /\ pc[t] = "setLogged"
  /\ transitionLogged' = TRUE
  /\ transitionEvents' = transitionEvents + 1
  /\ pc' = [pc EXCEPT ![t] = "readClock"]
  /\ UNCHANGED <<sharedFrame, mu, lastLoggedEngine, lastLogTime, dispatchLog,
                 local, started,
                 engineCalls>>

\* selectEngine: "now := time.Now()"
ReadClock(t) ==
  /\ pc[t] = "readClock"
  /\ local' = [local EXCEPT ![t].now = now]
  /\ pc' = [pc EXCEPT ![t] = "checkEngine"]
  /\ UNCHANGED <<sharedFrame, mu, diagVars, started, engineCalls>>

\* selectEngine: the read of lastLoggedEngine, left operand of ||
CheckEngine(t) ==
  /\ pc[t] = "checkEngine"
  /\ pc' = [pc EXCEPT ![t] =
              IF lastLoggedEngine # engineName(local[t].usePoA)
              THEN "setEngine" ELSE "checkTime"]
  /\ UNCHANGED <<sharedFrame, mu, diagVars, local, started, engineCalls>>

\* lastLogTime is a multi-word time.Time written outside the lock: a read
\* that overlaps another thread's write may see words of both values, and
\* the comparison made on it may come out either way
tornTime(t) == \E u \in Threads \ {t} : pc[u] = "setTime"
timeExpired(t) ==
  {local[t].now - lastLogTime > LogInterval} \cup (IF tornTime(t) THEN BOOLEAN ELSE {})

\* selectEngine: the read of lastLogTime, right operand of ||
CheckTime(t) ==
  /\ pc[t] = "checkTime"
  /\ \E expired \in timeExpired(t) :
       IF expired
       THEN /\ pc' = [pc EXCEPT ![t] = "setEngine"]
            /\ UNCHANGED local
       ELSE /\ pc' = [pc EXCEPT ![t] = "delegate"]
            /\ local' = [local EXCEPT ![t].engine = engineFor(local[t].usePoA)]
  /\ UNCHANGED <<sharedFrame, mu, diagVars, started, engineCalls>>

\* selectEngine: "h.lastLoggedEngine = currentEngine"
SetEngine(t) ==
  /\ pc[t] = "setEngine"
  /\ lastLoggedEngine' = engineName(local[t].usePoA)
  /\ pc' = [pc EXCEPT ![t] = "setTime"]
  /\ UNCHANGED <<sharedFrame, mu, transitionLogged, lastLogTime,
                 transitionEvents, dispatchLog, local, started, engineCalls>>

\* selectEngine: "h.lastLogTime = now", the log line, and the return
SetTime(t) ==
  /\ pc[t] = "setTime"
  /\ lastLogTime' = local[t].now
  /\ dispatchLog' = DispatchLine(engineName(local[t].usePoA), local[t].now)
  /\ local' = [local EXCEPT ![t].engine = engineFor(local[t].usePoA)]
  /\ pc' = [pc EXCEPT ![t] = "delegate"]
  /\ UNCHANGED <<sharedFrame, mu, transitionLogged, lastLoggedEngine,
                 transitionEvents, started, engineCalls>>

\* mutant: the operation is called on both engines
DelegateCall_Both(t) ==
  /\ pc[t] = "delegate"
  /\ engineCalls' = [e \in {PoS, PoA} |-> engineCalls[e] + 1]
  /\ local' = [local EXCEPT ![t].made =
                 <<[engine |-> PoS, method |-> local[t].op],
                   [engine |-> PoA, method |-> local[t].op]>>]
  /\ pc' = [pc EXCEPT ![t] = "returned"]
  /\ UNCHANGED <<sharedFrame, mu, diagVars, started>>

\* the call of the operation on the engine chosen (trackingMockEngine.recordCall)
DelegateCall(t) ==
  /\ pc[t] = "delegate"
  /\ engineCalls' = [engineCalls EXCEPT ![local[t].engine] = @ + 1]
  /\ local' = [local EXCEPT ![t].made =
                 Append(@, [engine |-> local[t].engine, method |-> local[t].op])]
  /\ pc' = [pc EXCEPT ![t] = "returned"]
  /\ UNCHANGED <<sharedFrame, mu, diagVars, started>>

\* the handler returns and the thread drops its frame
Return(t) ==
  /\ pc[t] = "returned"
  /\ local' = [local EXCEPT ![t] = NoCall]
  /\ pc' = [pc EXCEPT ![t] = "idle"]
  /\ UNCHANGED <<sharedFrame, mu, diagVars, started, engineCalls>>

NextConc ==
  \/ Tick
  \/ \E t \in Threads :
       \/ Call(t) \/ RLock(t) \/ RUnlock(t) \/ CheckTransition(t) \/ SetLogged(t)
       \/ ReadClock(t) \/ CheckEngine(t) \/ CheckTime(t) \/ SetEngine(t)
       \/ SetTime(t) \/ DelegateCall(t) \/ Return(t)

SpecConc == Init /\ [][NextConc]_vars

\* ============================================================ SpecNew
\* The constructor on every combination of present and absent engines.
ErrMissingEngine == "ErrMissingEngine"
NewArgs ==
  [posEngine : {PoS, Nil}, poaEngine : {PoA, Nil}, transitionBlock : 0 .. MaxUint]
NoOutput == [op |-> "", instance |-> FALSE, err |-> Nil]

\* mutant: only the PoS engine is tested for nil
newError_PosOnly(pos, poa) == IF pos = Nil THEN ErrMissingEngine ELSE Nil

\* the two nil tests of New
newError(pos, poa) ==
  IF pos = Nil THEN ErrMissingEngine
  ELSE IF poa = Nil THEN ErrMissingEngine
  ELSE Nil

\* no hybrid instance exists
NoHybrid ==
  /\ posEngine = Nil
  /\ poaEngine = Nil
  /\ transitionBlock = 0
  /\ initialSigners = <<>>
  /\ mu = [readers |-> {}, writer |-> FALSE]
  /\ transitionLogged = FALSE
  /\ lastLoggedEngine = ""
  /\ lastLogTime = 0
  /\ transitionEvents = 0
  /\ dispatchLog = NoDispatchLine
  /\ closeCalls = [e \in {PoS, PoA} |-> 0]
  /\ now = StartTime
  /\ header = NoHeader
  /\ calls = <<>>
  /\ ret = Returned("", 0, Nil)
  /\ servedEras = {}
  /\ NoBatch
  /\ NoThreads

\* no instance yet: the caller holds the arguments only
InitNew ==
  /\ input \in NewArgs
  /\ output = NoOutput
  /\ NoHybrid

\* New(posEngine, poaEngine, transitionBlock)
NewCall ==
  /\ output = NoOutput
  /\ LET err == newError(input.posEngine, input.poaEngine)
     IN IF err # Nil
        THEN /\ output' = NewOutput(FALSE, err)
             /\ UNCHANGED hybridVars
        ELSE /\ output' = NewOutput(TRUE, Nil)
             /\ posEngine' = input.posEngine
             /\ poaEngine' = input.poaEngine
             /\ transitionBlock' = input.transitionBlock
             /\ initialSigners' = defaultInitialSigners
  /\ UNCHANGED <<input, closeCalls, mu, diagVars, now, header, calls, ret, servedEras,
                 batchVars, concVars>>

\* the caller drops what New returned and builds other arguments
NewArguments ==
  /\ output # NoOutput
  /\ input' \in NewArgs
  /\ output' = NoOutput
  /\ posEngine' = Nil
  /\ poaEngine' = Nil
  /\ transitionBlock' = 0
  /\ initialSigners' = <<>>
  /\ UNCHANGED <<closeCalls, mu, diagVars, now, header, calls, ret, servedEras,
                 batchVars, concVars>>

NextNew == NewCall \/ NewArguments

SpecNew == InitNew /\ [][NextNew]_vars

\* ========================================================= SpecConfig
\* The chain configuration and its validation (package params).
\* PoSToPoATransitionBlock is a *big.Int: absent, or any integer.
ConfigHeights == (0 - 2) .. (MaxUint + 1)
\* a chain config: TerminalTotalDifficulty, PoSToPoATransitionBlock and Clique
\* present or absent; the other forks in a valid order
ChainConfigs ==
  {c \in [hasTTD : BOOLEAN, hasTransition : BOOLEAN,
          transitionBlock : ConfigHeights, hasClique : BOOLEAN] :
     ~c.hasTransition => c.transitionBlock = 0}

ErrNegativeTransition == "PoS to PoA transition block cannot be negative"
ErrTransitionNeedsClique == "PoS to PoA transition requires Clique configuration"

\* mutant: a transition at genesis is refused
validatePoSToPoATransition_NoGenesis(c) ==
  IF ~c.hasTransition THEN Nil
  ELSE IF c.transitionBlock <= 0 THEN ErrNegativeTransition
  ELSE IF ~c.hasClique THEN ErrTransitionNeedsClique
  ELSE Nil

validatePoSToPoATransition(c) ==
  IF ~c.hasTransition THEN Nil
  ELSE IF c.transitionBlock < 0 THEN ErrNegativeTransition
  ELSE IF ~c.hasClique THEN ErrTransitionNeedsClique
  ELSE Nil

\* the error of the fork-order check: the validation error behind the prefix
\* "invalid PoS to PoA transition configuration: "
forkOrderError(err) ==
  CASE err = Nil -> Nil
    [] err = ErrNegativeTransition ->
         "invalid PoS to PoA transition configuration: PoS to PoA transition block cannot be negative"
    [] err = ErrTransitionNeedsClique ->
         "invalid PoS to PoA transition configuration: PoS to PoA transition requires Clique configuration"

ConfigOutput(op, err) == [op |-> op, instance |-> FALSE, err |-> err]

InitConfig ==
  /\ input \in ChainConfigs
  /\ output = NoOutput
  /\ NoHybrid

configFrame ==
  <<hybridVars, input, closeCalls, mu, diagVars, now, header, calls, ret, servedEras,
    batchVars, concVars>>

\* c.validatePoSToPoATransition()
ValidateTransition ==
  /\ output = NoOutput
  /\ output' = ConfigOutput("validatePoSToPoATransition",
                            validatePoSToPoATransition(input))
  /\ UNCHANGED configFrame

\* c.CheckConfigForkOrder(), the forks themselves in order
CheckConfigForkOrder ==
  /\ output = NoOutput
  /\ output' = ConfigOutput("CheckConfigForkOrder",
                            forkOrderError(validatePoSToPoATransition(input)))
  /\ UNCHANGED configFrame

\* the caller, its config validated or refused, builds another one
NewConfig ==
  /\ output.op \in {"validatePoSToPoATransition", "CheckConfigForkOrder"}
  /\ input' \in ChainConfigs
  /\ output' = NoOutput
  /\ UNCHANGED <<hybridVars, closeCalls, mu, diagVars, now, header, calls, ret, servedEras,
                 batchVars, concVars>>

\* ---- compatibility of a stored config with a new one
\* the chain head passed to CheckCompatible, a uint64
HeadBlocks == 0 .. MaxUint

ErrTransitionCompat == "PoS to PoA transition block"

\* the two optional heights are the same: both absent, or the same integer
configBlockEqual(stored, new) ==
  /\ stored.hasTransition = new.hasTransition
  /\ stored.hasTransition => stored.transitionBlock = new.transitionBlock

\* the smaller of the two heights, an absent one counting as never reached
smallerHeight(stored, new) ==
  IF ~new.hasTransition THEN stored.transitionBlock
  ELSE IF ~stored.hasTransition THEN new.transitionBlock
  ELSE IF stored.transitionBlock < new.transitionBlock THEN stored.transitionBlock
  ELSE new.transitionBlock

\* mutant: only the stored height is compared with the head
isTransitionIncompatible_Stored(stored, new, head) ==
  /\ ~configBlockEqual(stored, new)
  /\ stored.hasTransition
  /\ head >= stored.transitionBlock

isTransitionIncompatible(stored, new, head) ==
  /\ ~configBlockEqual(stored, new)
  /\ head >= smallerHeight(stored, new)

\* the block to rewind to: one before the smaller height
rewindToBlock(stored, new) == smallerHeight(stored, new) - 1

CompatOutput(new, head, err, rewind) ==
  [op |-> "CheckCompatible", instance |-> FALSE, err |-> err,
   new |-> new, head |-> head, rewind |-> rewind]

\* stored.CheckCompatible(new, headBlock, 0), input being the stored config
CheckCompatible ==
  /\ output = NoOutput
  /\ \E new \in ChainConfigs, head \in HeadBlocks :
       output' = IF isTransitionIncompatible(input, new, head)
                 THEN CompatOutput(new, head, ErrTransitionCompat,
                                   rewindToBlock(input, new))
                 ELSE CompatOutput(new, head, Nil, 0)
  /\ UNCHANGED configFrame

\* ---- the era predicate of the config
\* mutant: the transition block itself is still outside the PoA era
isPoSToPoATransition_Strict(c, blockNumber) ==
  c.hasTransition /\ blockNumber > c.transitionBlock

isPoSToPoATransition(c, blockNumber) ==
  c.hasTransition /\ blockNumber >= c.transitionBlock

\* c.IsPoSToPoATransition(blockNumber), blockNumber a *big.Int
IsPoSToPoATransition ==
  /\ output = NoOutput
  /\ \E blockNumber \in ConfigHeights :
       output' = [op |-> "IsPoSToPoATransition", instance |-> FALSE,
                  err |-> Nil, blockNumber |-> blockNumber,
                  result |-> isPoSToPoATransition(input, blockNumber)]
  /\ UNCHANGED configFrame

\* ---- JSON form of the config
\* decimal digits of a natural number, most significant first
RECURSIVE Digits(_)
Digits(n) == IF n < 10 THEN <<n>> ELSE Append(Digits(n \div 10), n % 10)

\* a big.Int as a JSON number: an optional minus sign, then the digits
jsonNumber(i) ==
  [type |-> "number", minus |-> i < 0,
   digits |-> Digits(IF i < 0 THEN 0 - i ELSE i)]

jsonObject == [type |-> "object", minus |-> FALSE, digits |-> <<>>]

RECURSIVE digitsValue(_)
digitsValue(d) ==
  IF Len(d) = 0 THEN 0
  ELSE 10 * digitsValue(SubSeq(d, 1, Len(d) - 1)) + d[Len(d)]

parseNumber(v) ==
  IF v.minus THEN 0 - digitsValue(v.digits) ELSE digitsValue(v.digits)

\* one member of a JSON object, or none for a field left out (omitempty)
jsonMember(present, key, value) ==
  IF present THEN <<[key |-> key, value |-> value]>> ELSE <<>>

hasKey(doc, key) == \E i \in 1 .. Len(doc) : doc[i].key = key

valueOf(doc, key) == doc[CHOOSE i \in 1 .. Len(doc) : doc[i].key = key].value

\* mutant: the key is written even when the height is absent
marshalJSON_AlwaysEmit(c) ==
  jsonMember(c.hasTTD, "terminalTotalDifficulty", jsonNumber(0))
    \o jsonMember(TRUE, "posToPoaTransitionBlock",
                  jsonNumber(c.transitionBlock))
    \o jsonMember(c.hasClique, "clique", jsonObject)

marshalJSON(c) ==
  jsonMember(c.hasTTD, "terminalTotalDifficulty", jsonNumber(0))
    \o jsonMember(c.hasTransition, "posToPoaTransitionBlock",
                  jsonNumber(c.transitionBlock))
    \o jsonMember(c.hasClique, "clique", jsonObject)

unmarshalJSON(doc) ==
  [hasTTD |-> hasKey(doc, "terminalTotalDifficulty"),
   hasTransition |-> hasKey(doc, "posToPoaTransitionBlock"),
   transitionBlock |-> IF hasKey(doc, "posToPoaTransitionBlock")
                       THEN parseNumber(valueOf(doc, "posToPoaTransitionBlock"))
                       ELSE 0,
   hasClique |-> hasKey(doc, "clique")]

NoConfig ==
  [hasTTD |-> FALSE, hasTransition |-> FALSE, transitionBlock |-> 0,
   hasClique |-> FALSE]

JSONOutput(op, data, parsed) ==
  [op |-> op, instance |-> FALSE, err |-> Nil, data |-> data,
   parsed |-> parsed]

\* data, err := json.Marshal(config)
Marshal ==
  /\ output = NoOutput
  /\ output' = JSONOutput("json.Marshal", marshalJSON(input), NoConfig)
  /\ UNCHANGED configFrame

\* err = json.Unmarshal(data, &unmarshaled)
Unmarshal ==
  /\ output.op = "json.Marshal"
  /\ output' = JSONOutput("json.Unmarshal", output.data,
                          unmarshalJSON(output.data))
  /\ UNCHANGED configFrame

\* ---- the engine factory (package ethconfig)
ErrNoTerminalTotalDifficulty == "'terminalTotalDifficulty' is not set"

EngineKinds == {"hybrid", "beacon(clique)", "beacon(ethash)"}

\* mutant: the transition height is looked at before the
\* terminal-total-difficulty marker
createConsensusEngine_TransitionFirst(c) ==
  IF c.hasTransition THEN [engine |-> "hybrid", err |-> Nil]
  ELSE IF ~c.hasTTD
    THEN [engine |-> Nil, err |-> ErrNoTerminalTotalDifficulty]
  ELSE IF c.hasClique THEN [engine |-> "beacon(clique)", err |-> Nil]
  ELSE [engine |-> "beacon(ethash)", err |-> Nil]

createConsensusEngine(c) ==
  IF ~c.hasTTD THEN [engine |-> Nil, err |-> ErrNoTerminalTotalDifficulty]
  ELSE IF c.hasTransition THEN [engine |-> "hybrid", err |-> Nil]
  ELSE IF c.hasClique THEN [engine |-> "beacon(clique)", err |-> Nil]
  ELSE [engine |-> "beacon(ethash)", err |-> Nil]

\* "config.PoSToPoATransitionBlock.Uint64()": the low 64 bits of a
\* non-negative *big.Int, the height handed to hybrid.New
transitionBlockUint64(c) == c.transitionBlock % UintMod

\* engine, err := CreateConsensusEngine(config, db), config having passed
\* validation
\* validation; the hybrid case is hybrid.New(posEngine, poaEngine, height)
CreateConsensusEngine ==
  /\ output = NoOutput
  /\ validatePoSToPoATransition(input) = Nil
  /\ LET r == createConsensusEngine(input)
     IN /\ output' = [op |-> "CreateConsensusEngine",
                      instance |-> r.engine = "hybrid", err |-> r.err,
                      engine |-> r.engine]
        /\ IF r.engine = "hybrid"
           THEN /\ posEngine' = PoS
                /\ poaEngine' = PoA
                /\ transitionBlock' = transitionBlockUint64(input)
                /\ initialSigners' = defaultInitialSigners
           ELSE UNCHANGED hybridVars
  /\ UNCHANGED <<input, closeCalls, mu, diagVars, now, header, calls, ret,
                 servedEras, batchVars, concVars>>

NextConfig ==
  \/ ValidateTransition
  \/ CheckConfigForkOrder
  \/ CheckCompatible
  \/ IsPoSToPoATransition
  \/ Marshal
  \/ Unmarshal
  \/ CreateConsensusEngine
  \/ NewConfig

SpecConfig == InitConfig /\ [][NextConfig]_vars

\* ======================================================== properties
\* the era of a block number, as the specification defines it
EraOf(n) == IF n < transitionBlock THEN PoS ELSE PoA

DispatchOps ==
  {"Author", "VerifyHeader", "VerifyUncles", "Prepare", "Finalize",
   "FinalizeAndAssemble", "Seal", "SealHash"}

\* the last hybrid call made exactly one sub-engine call: `method` on `engine`
OneCall(engine, method) ==
  /\ Len(calls) = 1
  /\ calls[1].engine = engine
  /\ calls[1].method = method

\* C1: every dispatching operation (Prepare off the transition block) on block
\* number n has delegated to the PoS engine when n < H and to the PoA engine
\* when n >= H, for every H.
C1_Dispatch ==
  (ret.op \in DispatchOps /\ ~(ret.op = "Prepare" /\ ret.number = transitionBlock))
    => OneCall(IF ret.number < transitionBlock THEN PoS ELSE PoA, ret.op)

\* Seal on block H-1 went to the PoS engine.
C1_Witness ==
  /\ ret.op = "Seal"
  /\ ret.number + 1 = transitionBlock
  /\ OneCall(PoS, "Seal")

\* C2: whatever the instance served before, VerifyHeader on a header below H
\* has called the PoS engine's VerifyHeader, once, and no method of the PoA
\* engine.
C2_ReorgVerify ==
  (ret.op = "VerifyHeader" /\ ret.number < transitionBlock)
    => /\ OneCall(PoS, "VerifyHeader")
       /\ \A i \in 1 .. Len(calls) : calls[i].engine # PoA

\* An instance that has logged the transition and delegated to the PoA engine
\* verifies a PoS-era header with the PoS engine.
C2_Witness ==
  /\ transitionLogged
  /\ PoA \in servedEras
  /\ ret.op = "VerifyHeader"
  /\ ret.number < transitionBlock
  /\ OneCall(PoS, "VerifyHeader")

RECURSIVE Concat(_)
Concat(seqs) == IF seqs = <<>> THEN <<>> ELSE Head(seqs) \o Concat(Tail(seqs))

\* C5: after a successful Prepare at number H, extra is 32 zero bytes, the
\* 20-byte addresses of the initial authority set in declared order, 65 zero
\* bytes: length 32 + 20*|S| + 65, bytes [32, 32+20*|S|) the addresses.
C5_ExtraLayout ==
  (ret.op = "Prepare" /\ ret.number = transitionBlock /\ ret.err = Nil)
    => LET S == defaultInitialSigners
           extra == header.extra
       IN /\ Len(extra) = 32 + 20 * Len(S) + 65
          /\ SubSeq(extra, 1, 32) = [i \in 1 .. 32 |-> 0]
          /\ SubSeq(extra, 33, 32 + 20 * Len(S)) = Concat(S)
          /\ SubSeq(extra, 33 + 20 * Len(S), Len(extra)) = [i \in 1 .. 65 |-> 0]
          /\ \A i \in 1 .. Len(S) : Len(S[i]) = 20

\* Prepare at H returned nil on a header that carried a PoS payload; extra now
\* is 157 bytes with the first signer at offset 32.
C5_Witness ==
  /\ ret.op = "Prepare"
  /\ ret.number = transitionBlock
  /\ ret.err = Nil
  /\ Len(header.extra) = 157
  /\ SubSeq(header.extra, 33, 52) = Addr1
  /\ header.number = transitionBlock

\* C6: a step of the hybrid changes the header only in Prepare at number H,
\* and there only its extra; Prepare at any other number makes one Prepare
\* call on the engine of that number with the header as the caller gave it;
\* no other operation changes any header field.
C6_Frame ==
  [][/\ (header' # header /\ ret'.op # "NewHeader")
          => /\ ret'.op = "Prepare"
             /\ header.number = transitionBlock
             /\ header' = [header EXCEPT !.extra = header'.extra]
     /\ (ret'.op = "Prepare" /\ header.number # transitionBlock)
          => /\ header' = header
             /\ Len(calls') = 1
             /\ calls'[1].engine = EraOf(header.number)
             /\ calls'[1].method = "Prepare"
             /\ calls'[1].arg = header]_vars

\* Prepare at H+1 left the caller's extra as it was.
C6_Witness ==
  /\ ret.op = "Prepare"
  /\ ret.number = AddU(transitionBlock, 1)
  /\ ret.number > transitionBlock
  /\ header.extra = <<112, 111, 115>>
  /\ OneCall(PoA, "Prepare")

\* C9: every Close calls Close on the PoS engine, then on the PoA engine, once
\* each, whatever the first returns; when the PoS close fails and the PoA
\* close succeeds, Close returns the PoS failure.
C9_CloseBoth ==
  ret.op = "Close"
    => /\ Len(calls) = 2
       /\ calls[1].engine = PoS /\ calls[1].method = "Close"
       /\ calls[2].engine = PoA /\ calls[2].method = "Close"
       /\ (calls[1].err # Nil /\ calls[2].err = Nil) => ret.err = calls[1].err

\* The PoS close failed, the PoA close was still made and succeeded.
C9_Witness ==
  /\ ret.op = "Close"
  /\ Len(calls) = 2
  /\ calls[1].err = ErrOf(PoS)
  /\ calls[2].engine = PoA
  /\ calls[2].err = Nil
  /\ ret.err = ErrOf(PoS)

\* C10: Close returns the first failure in closing order: the PoS engine's if
\* its close failed, else the PoA engine's if its close failed, else nil.
C10_CloseFirstError ==
  (ret.op = "Close" /\ Len(calls) = 2)
    => ret.err = (IF calls[1].err # Nil THEN calls[1].err
                  ELSE IF calls[2].err # Nil THEN calls[2].err ELSE Nil)

\* Both closes failed and Close returned the PoS engine's failure.
C10_Witness ==
  /\ ret.op = "Close"
  /\ Len(calls) = 2
  /\ calls[1].err = ErrOf(PoS)
  /\ calls[2].err = ErrOf(PoA)
  /\ ret.err = ErrOf(PoS)

\* ------------------------------------------------ VerifyHeaders (SpecBatch)
\* the batch holds a header of each era
Straddles(hs) ==
  /\ \E i \in 1 .. Len(hs) : hs[i].number < transitionBlock
  /\ \E i \in 1 .. Len(hs) : hs[i].number >= transitionBlock

\* the headers one sub-engine call was handed
HeadersOf(c) ==
  IF c.method = "VerifyHeaders" THEN {c.arg[i] : i \in 1 .. Len(c.arg)} ELSE {c.arg}

\* the caller closed the cancel channel of the batch in flight
callerCancelled == worker.chans = "hybrid" /\ worker.pc # "empty" /\ quit = "closed"

\* every value placed on the results channel so far, in order
delivered == received \o results

\* C3: for every non-empty batch holding a header below H and a header at or
\* above H, no header is handed to the other era's engine, and once the
\* uncancelled batch is over every header has been verified by its era's engine.
C3_BatchSplit ==
  (worker.pc # "none" /\ Straddles(headers))
    => /\ \A k \in 1 .. Len(calls) :
            \A h \in HeadersOf(calls[k]) : calls[k].engine = EraOf(h.number)
       /\ (worker.pc \in {"done", "bulk"} /\ ~callerCancelled)
            => \A i \in 1 .. Len(headers) :
                 \E k \in 1 .. Len(calls) :
                   /\ headers[i] \in HeadersOf(calls[k])
                   /\ calls[k].engine = EraOf(headers[i].number)

\* C4: for a straddling batch of k headers that is never cancelled, results
\* yields exactly k values in header order, the i-th the outcome of verifying
\* header i with its era's engine, and is then closed; VerifyHeader is called
\* once per header, on the PoS engine below H and on the PoA engine from H on.
C4_SplitResults ==
  (worker.pc \in {"done", "bulk"} /\ Straddles(headers) /\ ~callerCancelled)
    => /\ resultsClosed
       /\ Len(calls) = Len(headers)
       /\ Len(delivered) = Len(headers)
       /\ \A i \in 1 .. Len(headers) :
            calls[i] = EngineCall(EraOf(headers[i].number), "VerifyHeader",
                                  headers[i], delivered[i])

\* ------------------------------------------------------------------ C7
\* C7: engine selection is a total, pure function of (block number, H):
\* whatever the interleaving, the clock and the diagnostic fields, a thread
\* that has selected an engine for block number n holds the engine of n's era,
\* and two threads that selected for the same n hold the same engine.
selected(t) == local[t].engine # ""
C7_PureSelection ==
  /\ \A t \in Threads :
       selected(t) => /\ local[t].engine \in {posEngine, poaEngine}
                      /\ local[t].engine = EraOf(local[t].blockNumber)
  /\ \A t, u \in Threads :
       (selected(t) /\ selected(u) /\ local[t].blockNumber = local[u].blockNumber)
         => local[t].engine = local[u].engine

\* a selectEngine run returned the PoS engine although another thread's run
\* has since set the diagnostic fields to the PoA era and the clock has moved
C7_Witness ==
  \E t \in Threads :
    /\ selected(t) /\ local[t].op = "SealHash"
    /\ local[t].engine = PoS
    /\ transitionLogged /\ lastLoggedEngine = "PoA" /\ lastLogTime > 0
    /\ now > StartTime

\* ------------------------------------------------------------------ C8
\* C8: under any interleaving every hybrid call makes exactly one call, of
\* the same operation, on the sub-engine of its block number's era: the PoS
\* and PoA call counts add up to the hybrid calls that reached their
\* delegation, and to all hybrid calls made once none is in flight.
beforeDelegation == {t \in Threads : pc[t] \notin {"idle", "returned"}}
C8_ExactlyOneCall ==
  /\ engineCalls[PoS] + engineCalls[PoA] = started - Cardinality(beforeDelegation)
  /\ \A t \in Threads :
       IF pc[t] = "returned"
       THEN local[t].made = <<[engine |-> EraOf(local[t].blockNumber),
                               method |-> local[t].op]>>
       ELSE local[t].made = <<>>

\* all the calls were made, two of them overlapping and now returned, one in
\* each era, one through selectEngine and one through an inline comparison
C8_Witness ==
  /\ started = MaxCalls
  /\ \A t \in Threads : pc[t] = "returned"
  /\ engineCalls[PoS] + engineCalls[PoA] = MaxCalls
  /\ \E t, u \in Threads :
       /\ local[t].op \in SelectOps /\ local[t].made[1].engine = PoS
       /\ local[u].op \in InlineOps /\ local[u].made[1].engine = PoA
  /\ lastLoggedEngine = "PoA"

\* ------------------------------------------------------------------ C11
FallibleOps ==
  {"Author", "VerifyHeader", "VerifyUncles", "Prepare", "FinalizeAndAssemble", "Seal"}

\* C11: when the sub-engine selected by a fallible operation returns a
\* failure, the operation returns that very error value, having made that one
\* call only: no retry, no call on the other engine.
C11_ErrorPropagation ==
  (ret.op \in FallibleOps /\ \E k \in 1 .. Len(calls) : calls[k].err # Nil)
    => /\ Len(calls) = 1
       /\ calls[1].method = ret.op
       /\ ret.err = calls[1].err
       /\ ret.err \in {ErrOf(PoS), ErrOf(PoA)}

\* FinalizeAndAssemble on a PoA-era header returned the PoA engine's failure.
C11_Witness ==
  /\ ret.op = "FinalizeAndAssemble"
  /\ ret.number >= transitionBlock
  /\ Len(calls) = 1
  /\ calls[1].err = ErrOf(PoA)
  /\ ret.err = ErrOf(PoA)

\* ------------------------------------------------------------------ C12
\* the layout of extra at the transition block: vanity, signers, seal
ExpectedExtra ==
  [i \in 1 .. 32 |-> 0] \o Concat(defaultInitialSigners) \o [i \in 1 .. 65 |-> 0]

\* C12: Prepare at number H has made exactly one sub-engine call, Prepare on
\* the PoA engine, and the header that call received already carried the
\* transition extra; the PoS engine was not called.
C12_WriteThenPrepare ==
  (ret.op = "Prepare" /\ ret.number = transitionBlock)
    => /\ Len(calls) = 1
       /\ calls[1].engine = PoA
       /\ calls[1].method = "Prepare"
       /\ calls[1].arg.number = transitionBlock
       /\ calls[1].arg.extra = ExpectedExtra

\* Prepare at H on a header that came with a PoS payload: the PoA engine saw
\* the 157-byte extra.
C12_Witness ==
  /\ ret.op = "Prepare"
  /\ ret.number = transitionBlock
  /\ Len(calls) = 1
  /\ calls[1].engine = PoA
  /\ Len(calls[1].arg.extra) = 157
  /\ calls[1].arg = header

\* ------------------------------------------------------------------ C13
\* C13: when the PoA engine's Prepare fails at number H, Prepare returns that
\* error unchanged and extra stays as the preparer wrote it.
C13_PrepareFailure ==
  (ret.op = "Prepare" /\ ret.number = transitionBlock
     /\ Len(calls) >= 1 /\ calls[1].err # Nil)
    => /\ ret.err = calls[1].err
       /\ header.extra = ExpectedExtra
       /\ header.extra \notin CallerExtras

\* The PoA engine's Prepare failed at H; the caller's header holds the
\* transition extra.
C13_Witness ==
  /\ ret.op = "Prepare"
  /\ ret.number = transitionBlock
  /\ ret.err = ErrOf(PoA)
  /\ header.extra = ExpectedExtra

\* ------------------------------------------------------------------ C14
\* C14: VerifyHeaders on an empty batch has returned the hybrid's own two
\* channels, both closed, with no result on them, and has called no
\* sub-engine.
C14_EmptyBatch ==
  (worker.pc # "none" /\ headers = <<>>)
    => /\ worker.pc = "empty"
       /\ worker.chans = "hybrid"
       /\ quit = "closed"
       /\ resultsClosed
       /\ delivered = <<>>
       /\ calls = <<>>

\* An instance that served both eras before is handed an empty batch.
C14_Witness ==
  /\ worker.pc = "empty"
  /\ headers = <<>>
  /\ servedEras = {PoS, PoA}
  /\ quit = "closed" /\ resultsClosed

\* ------------------------------------------------------------------ C15
\* C15 as stated: once the cancel channel is closed the worker places no
\* further result on the results channel.
C15_NoResultAfterCancel == worker.afterCancel = 0

\* C15 amended: the worker enters a per-header dispatch only from its test of
\* the cancel channel, with the channel found open, and makes sub-engine calls
\* nowhere else; once the cancel channel is closed it places at most one
\* further result on the results channel.
C15_CancelChecked ==
  /\ [][(worker'.pc = "verify" /\ worker.pc # "verify")
          => (worker.pc = "loop" /\ quit = "open")]_vars
  /\ [][(worker.chans = "hybrid" /\ calls' # calls) => worker.pc = "verify"]_vars
  /\ [](worker.afterCancel <= 1)

\* The caller cancelled while a dispatch was under way; its result was still
\* sent, the next test of the cancel channel ended the worker, and one header
\* was left unverified.
C15_Witness ==
  /\ worker.pc = "done"
  /\ worker.afterCancel = 1
  /\ resultsClosed
  /\ Len(calls) < Len(headers)
  /\ Len(delivered) = Len(calls)

\* ------------------------------------------------------------------ C16
\* C16: CalcDifficulty on a parent numbered p, for every p of the unsigned
\* range, delegates to the PoA engine iff p + 1 >= H and to the PoS engine
\* otherwise, p + 1 being the number of the block produced.
C16_CalcDifficultyEra ==
  ret.op = "CalcDifficulty"
    => OneCall(IF ret.number + 1 >= transitionBlock THEN PoA ELSE PoS, "CalcDifficulty")

\* ------------------------------------------------------------------ C17
AllNumbers == 0 .. MaxUint
\* every selection the hybrid can make for block number n gives `engine`
SelectsAlways(n, engine) ==
  /\ selectEngine(n) = engine
  /\ AuthorEngine(n) = engine
  /\ VerifyHeaderEngine(n) = engine
  /\ VerifyUnclesEngine(n) = engine

\* C17: with H = 0 every block number, 0 included, selects the PoA engine and
\* no operation has ever delegated to the PoS engine; the number 2^64-1, which
\* the boundary diagnostic takes for H - 1, selects PoA like the others.
C17_GenesisTransition ==
  transitionBlock = 0
    => /\ \A n \in AllNumbers : SelectsAlways(n, PoA)
       /\ atTransitionBoundary(MaxUint) /\ shouldUsePoA(MaxUint)
       /\ PoS \notin servedEras
       /\ \A k \in 1 .. Len(calls) : calls[k].method # "Close" => calls[k].engine = PoA

\* With H = 0, Seal on the block numbered 2^64-1 went to the PoA engine.
C17_Witness ==
  /\ transitionBlock = 0
  /\ ret.op = "Seal"
  /\ ret.number = SubU(transitionBlock, 1)
  /\ OneCall(PoA, "Seal")
  /\ servedEras = {PoA}

\* ------------------------------------------------------------------ C18
\* C18: with H = 2^64-1 the PoA engine is selected for block number 2^64-1
\* only and the PoS engine for every other; the number 0, which the boundary
\* diagnostic takes for H + 1, selects PoS.
C18_MaxTransition ==
  transitionBlock = MaxUint
    => /\ \A n \in AllNumbers : SelectsAlways(n, IF n = MaxUint THEN PoA ELSE PoS)
       /\ atTransitionBoundary(0) /\ ~shouldUsePoA(0)
       /\ ret.op \in DispatchOps
            => OneCall(IF ret.number = MaxUint THEN PoA ELSE PoS, ret.op)

\* With H = 2^64-1, SealHash on block 0 went to the PoS engine after the PoA
\* engine had served block 2^64-1.
C18_Witness ==
  /\ transitionBlock = MaxUint
  /\ ret.op = "SealHash"
  /\ ret.number = AddU(transitionBlock, 1)
  /\ OneCall(PoS, "SealHash")
  /\ PoA \in servedEras

\* ------------------------------------------------------------------ C19
\* C19: New returns MissingEngine and no instance when the PoS engine, the PoA
\* engine or both are absent; with both present it returns an instance holding
\* the two engines, the transition height given (0 included) and a non-empty
\* authority set, and no error.
C19_NewMissingEngine ==
  output.op = "New"
    => IF input.posEngine = Nil \/ input.poaEngine = Nil
       THEN /\ output.err = ErrMissingEngine
            /\ ~output.instance
            /\ posEngine = Nil /\ poaEngine = Nil /\ initialSigners = <<>>
       ELSE /\ output.err = Nil
            /\ output.instance
            /\ posEngine = input.posEngine
            /\ poaEngine = input.poaEngine
            /\ transitionBlock = input.transitionBlock
            /\ Len(initialSigners) >= 1

\* New with the PoA engine alone absent failed with MissingEngine.
C19_Witness ==
  /\ output = NewOutput(FALSE, ErrMissingEngine)
  /\ input.posEngine = PoS
  /\ input.poaEngine = Nil
  /\ input.transitionBlock = 0

\* ------------------------------------------------------------------ C20
ValidationOps == {"validatePoSToPoATransition", "CheckConfigForkOrder"}

\* C20: validation, alone and inside the fork-order check, rejects a config
\* whose transition height is present and negative and one whose height is
\* present with no PoA sub-configuration; it accepts a config without a
\* transition height and one with a height >= 0 and a PoA sub-configuration.
C20_ConfigValidation ==
  output.op \in ValidationOps
    => /\ (input.hasTransition /\ input.transitionBlock < 0) => output.err # Nil
       /\ (input.hasTransition /\ ~input.hasClique) => output.err # Nil
       /\ ~input.hasTransition => output.err = Nil
       /\ (input.hasTransition /\ input.transitionBlock >= 0 /\ input.hasClique)
            => output.err = Nil

\* The fork-order check accepted a transition at block 0 with a PoA
\* sub-configuration.
C20_Witness ==
  /\ output = ConfigOutput("CheckConfigForkOrder", Nil)
  /\ input.hasTransition
  /\ input.transitionBlock = 0
  /\ input.hasClique


\* ------------------------------------------------------------------ C21
\* the heights that are configured in the stored and the new config
PresentHeights(stored, new) ==
  {c.transitionBlock : c \in {x \in {stored, new} : x.hasTransition}}

HeightsDiffer(stored, new) ==
  \/ stored.hasTransition # new.hasTransition
  \/ stored.transitionBlock # new.transitionBlock

SmallerOf(stored, new) ==
  CHOOSE m \in PresentHeights(stored, new) :
    \A x \in PresentHeights(stored, new) : m <= x

C22_Predicate ==
  output.op = "IsPoSToPoATransition"
    => /\ output.result
            <=> (/\ input.hasTransition
                 /\ output.blockNumber >= input.transitionBlock)
       /\ ~input.hasTransition => ~output.result

\* The predicate answered true for the transition block itself.
C22_Witness ==
  /\ output.op = "IsPoSToPoATransition"
  /\ input.hasTransition
  /\ input.transitionBlock = MidHeight
  /\ output.blockNumber = MidHeight
  /\ output.result

TransitionKey == "posToPoaTransitionBlock"

\* the integer a digit string denotes, read left to right
RECURSIVE DecimalValue(_, _)
DecimalValue(d, acc) ==
  IF d = <<>> THEN acc ELSE DecimalValue(Tail(d), 10 * acc + Head(d))

\* the members of a document stored under the transition key
TransitionMembers(doc) == {i \in 1 .. Len(doc) : doc[i].key = TransitionKey}

\* C26: serialising a config writes the key posToPoaTransitionBlock as a JSON
\* integer when the height is present and leaves the key out when it is
\* absent; parsing the serialised form gives back the same height, or none.
C26_JSONRoundTrip ==
  /\ output.op \in {"json.Marshal", "json.Unmarshal"}
       => /\ ~input.hasTransition => TransitionMembers(output.data) = {}
          /\ input.hasTransition
               => /\ Cardinality(TransitionMembers(output.data)) = 1
                  /\ \A i \in TransitionMembers(output.data) :
                       LET v == output.data[i].value
                       IN /\ v.type = "number"
                          /\ \A k \in 1 .. Len(v.digits) : v.digits[k] \in 0 .. 9
                          /\ Len(v.digits) >= 1
                          /\ v.minus <=> input.transitionBlock < 0
                          /\ DecimalValue(v.digits, 0)
                               = (IF input.transitionBlock < 0
                                  THEN 0 - input.transitionBlock
                                  ELSE input.transitionBlock)
  /\ output.op = "json.Unmarshal"
       => /\ output.parsed.hasTransition = input.hasTransition
          /\ output.parsed.transitionBlock = input.transitionBlock

\* A config with a two-digit height was serialised and parsed back.
C26_Witness ==
  /\ output.op = "json.Unmarshal"
  /\ input.hasTransition
  /\ input.transitionBlock >= 10
  /\ TransitionMembers(output.data) # {}
  /\ output.parsed.hasTransition
  /\ output.parsed.transitionBlock = input.transitionBlock


\* ------------------------------------------------------------------ C24
\* C24: the one-shot "consensus engine transition occurred" event is written
\* exactly once per instance, however many calls select an engine for block
\* H and however they interleave: never twice, and once as soon as the flag
\* that records it is set.
C24_TransitionOnce ==
  /\ transitionEvents <= 1
  /\ transitionLogged => transitionEvents = 1


\* ------------------------------------------------------------------ C25
\* C25: Close is idempotent in effect. Every call of Close, the first like any
\* later one, forwards Close to both sub-engines, so neither engine is ever
\* closed more often than the other; and no call of Close changes the
\* engines, the transition height or the engine selected for a block number.
C25_CloseIdempotent ==
  /\ [](closeCalls[PoS] = closeCalls[PoA])
  /\ [][closeCalls' # closeCalls
          => /\ Len(calls') = 2
             /\ {calls'[k].engine : k \in 1 .. 2} = {PoS, PoA}
             /\ \A k \in 1 .. 2 : calls'[k].method = "Close"
             /\ posEngine' = posEngine
             /\ poaEngine' = poaEngine
             /\ transitionBlock' = transitionBlock
             /\ \A n \in AllNumbers :
                  /\ selectEngine(n)' = selectEngine(n)
                  /\ AuthorEngine(n)' = AuthorEngine(n)
                  /\ VerifyHeaderEngine(n)' = VerifyHeaderEngine(n)
                  /\ VerifyUnclesEngine(n)' = VerifyUnclesEngine(n)]_vars

\* Close has been called twice on an instance that had already selected its
\* PoA engine, and both sub-engines were closed twice.
C25_Witness ==
  /\ ret.op = "Close"
  /\ closeCalls[PoS] = 2
  /\ closeCalls[PoA] = 2
  /\ transitionLogged
  /\ transitionBlock = MidHeight


\* ------------------------------------------------------------------ C27
\* the diagnostic field a thread is about to read or write, by its position
\* in selectEngine
ReadsField(t) ==
  CASE pc[t] = "checkTransition" -> "transitionLogged"
    [] pc[t] = "checkEngine" -> "lastLoggedEngine"
    [] pc[t] = "checkTime" -> "lastLogTime"
    [] OTHER -> "none"

WritesField(t) ==
  CASE pc[t] = "setLogged" -> "transitionLogged"
    [] pc[t] = "setEngine" -> "lastLoggedEngine"
    [] pc[t] = "setTime" -> "lastLogTime"
    [] OTHER -> "none"

\* C27: transitionLogged, lastLoggedEngine and lastLogTime are protected by
\* the reader-writer lock: whenever a thread is at a write of one of them
\* while another thread is at a read or a write of the same field, the
\* writer holds the lock exclusively.
C27_DiagnosticsLocked ==
  \A t \in Threads : \A u \in Threads \ {t} :
    (/\ WritesField(t) # "none"
     /\ WritesField(t) \in {ReadsField(u), WritesField(u)})
      => (mu.writer /\ mu.readers = {})


\* ------------------------------------------------------------------ C28
\* the threads with a call into a wrapped engine about to be made or made
InEngineCall == {t \in Threads : pc[t] \in {"delegate", "returned"}}

\* C28: no thread holds the reader-writer lock while a call into a wrapped
\* engine is in progress, and a handler that has returned holds no lock; the
\* lock is held only across the comparison of shouldUsePoA and never
\* exclusively, so a thread asking for the read lock is never blocked.
C28_NoLockAcrossCalls ==
  /\ InEngineCall # {} => (mu.readers \cap InEngineCall = {} /\ ~mu.writer)
  /\ \A t \in Threads : pc[t] \in {"returned", "idle"} => t \notin mu.readers
  /\ mu.readers = {t \in Threads : pc[t] = "runlock"}
  /\ \A t \in Threads : pc[t] = "rlock" => ~mu.writer

\* One thread is inside the engine call of an operation that went through
\* selectEngine while the other holds the read lock in shouldUsePoA.
C28_Witness ==
  /\ pc[1] = "delegate"
  /\ local[1].op = "SealHash"
  /\ pc[2] = "runlock"
  /\ mu.readers = {2}


\* ------------------------------------------------------------------ C29
\* C29: after construction no operation, in any sequence, changes the PoS
\* engine, the PoA engine, the transition height or the contents and order
\* of the initial authority set, and the set always has at least one member.
C29_ImmutableConfig ==
  /\ [][/\ posEngine' = posEngine
        /\ poaEngine' = poaEngine
        /\ transitionBlock' = transitionBlock
        /\ initialSigners' = initialSigners]_vars
  /\ [](Len(initialSigners) >= 1)

\* The transition block has been prepared from the authority set and the
\* instance closed afterwards; the set is the one given at construction.
C29_Witness ==
  /\ ret.op = "Close"
  /\ closeCalls[PoA] >= 1
  /\ header.number = transitionBlock
  /\ header.extra = TransitionExtra(defaultInitialSigners)
  /\ initialSigners = defaultInitialSigners
  /\ posEngine = PoS
  /\ poaEngine = PoA


\* ------------------------------------------------------------------ C30
\* the operations that choose their engine through selectEngine
SelectingOps ==
  {"Prepare", "Finalize", "FinalizeAndAssemble", "Seal", "SealHash",
   "CalcDifficulty"}

\* the block number the operation `op` selects its engine for, the caller's
\* header being numbered n
SelectedNumber(op, n) == IF op = "CalcDifficulty" THEN nextBlockNumber(n) ELSE n

\* C30: the one-shot transition event is emitted only by an engine selection
\* whose block number equals H; selections for numbers above H, or below H,
\* never emit it, however many are made.
C30_EmittedAtTransitionOnly ==
  [][transitionEvents' # transitionEvents
       => /\ ret'.op \in SelectingOps
          /\ SelectedNumber(ret'.op, header.number) = transitionBlock
          /\ transitionEvents' = transitionEvents + 1]_vars

\* The event has been emitted by SealHash on the transition block, after an
\* earlier selection of the PoA engine that did not emit it.
C30_Witness ==
  /\ transitionEvents = 1
  /\ ret.op = "SealHash"
  /\ header.number = transitionBlock
  /\ transitionBlock = MidHeight
  /\ lastLoggedEngine = "PoA"
  /\ lastLogTime < now


\* ------------------------------------------------------------------ C31
\* the engine of the era the config predicate gives block number n
PredicateEngine(c, n) == IF isPoSToPoATransition(c, n) THEN poaEngine ELSE posEngine

\* C31: for a hybrid built by the factory from a validated config and for
\* every block number n, the hybrid selects the PoA engine iff the config's
\* isPoSToPoATransition(n) is true, whatever the transition height, heights
\* that do not fit an unsigned 64-bit integer included.
C31_PredicateAgrees ==
  (output.op = "CreateConsensusEngine" /\ output.engine = "hybrid")
    => \A n \in AllNumbers : SelectsAlways(n, PredicateEngine(input, n))


\* ------------------------------------------------------------------ C32
\* every header of the batch hs lies on the side of H that `engine` serves
OneSided(hs, engine) ==
  \A i \in 1 .. Len(hs) : EraOf(hs[i].number) = engine

\* C32: when every header of a non-empty batch lies on one side of H,
\* VerifyHeaders has made exactly one call, the VerifyHeaders of that side's
\* engine on the whole batch as given, has returned the channels that call
\* returned and has started no worker; Seal has passed the caller's results
\* and stop channels to the selected engine as given.
C32_ForwardUnchanged ==
  /\ \A engine \in {PoS, PoA} :
       (/\ ret.op = "VerifyHeaders"
        /\ Len(ret.batch) > 0
        /\ OneSided(ret.batch, engine))
         => /\ OneCall(engine, "VerifyHeaders")
            /\ calls[1].arg = ret.batch
            /\ ret.chans = engine
            /\ ~ret.worker
  /\ ret.op = "Seal"
       => /\ OneCall(EraOf(ret.number), "Seal")
          /\ calls[1].results = ret.results
          /\ calls[1].stop = ret.stop

\* A batch of three headers from H upwards was forwarded whole to the PoA
\* engine, whose channels were returned.
C32_Witness ==
  /\ ret.op = "VerifyHeaders"
  /\ Len(ret.batch) = 3
  /\ ret.batch[1].number = transitionBlock
  /\ transitionBlock = MidHeight
  /\ OneSided(ret.batch, PoA)
  /\ OneCall(PoA, "VerifyHeaders")
  /\ calls[1].arg = ret.batch
  /\ ret.chans = PoA


\* ------------------------------------------------------------------ C33
\* the era named in the dispatch log for block number n
EraName(n) == IF n < transitionBlock THEN "PoS" ELSE "PoA"

\* C33: a "using consensus engine" line is written by an engine selection
\* iff the selected era differs from the era of the last such line or more
\* than 10 seconds have passed since that line; two lines for the same era
\* are never less than 10 seconds apart.
C33_DispatchLogRate ==
  /\ [][dispatchLog'.seq # dispatchLog.seq
          => \/ dispatchLog'.engine # dispatchLog.engine
             \/ dispatchLog'.time - dispatchLog.time > LogInterval]_vars
  /\ [][(/\ ret' # ret
         /\ ret'.op \in SelectingOps
         /\ ~(ret'.op = "Prepare" /\ header.number = transitionBlock))
          => (dispatchLog'.seq # dispatchLog.seq
                <=> \/ EraName(SelectedNumber(ret'.op, header.number))
                         # dispatchLog.engine
                    \/ now - dispatchLog.time > LogInterval)]_vars


workerRunning == worker.pc \in {"loop", "verify", "send"}

\* C35: on the split path a pending send always finds room in the results
\* channel, whatever the caller has received, and a running worker always
\* ends with the results channel closed, also when the caller never receives
\* and never closes the cancel channel.
C35_WorkerTerminates ==
  /\ [](worker.pc = "send" => Len(results) < resultsCapacity(headers))
  /\ workerRunning ~> (worker.pc = "done" /\ resultsClosed)

\* The worker went through a full straddling batch and ended while the caller
\* had received nothing and had left the cancel channel open.
C35_Witness ==
  /\ worker.pc = "done" /\ resultsClosed
  /\ Len(headers) = MaxBatch
  /\ quit = "open"
  /\ received = <<>>
  /\ Len(results) = Len(headers)


\* ------------------------------------------------------------------ C36
\* the batch in flight is on the per-header path
onSplitPath == worker.chans = "hybrid" /\ worker.pc \in {"loop", "verify", "send", "done"}

\* C36: on the per-header path the worker starts at most one sub-engine
\* VerifyHeader call and places at most one result on the results channel
\* after the caller closed the cancel channel, places none once the results
\* channel is closed, and the values placed so far are, in header order, the
\* outcomes of the calls made on the first headers of the batch.
C36_CancelledPrefix ==
  onSplitPath
    => /\ worker.callsAfterCancel <= 1
       /\ worker.afterCancel <= 1
       /\ resultsClosed => worker.pc = "done"
       /\ Len(delivered) <= Len(calls)
       /\ Len(calls) <= Len(headers)
       /\ \A i \in 1 .. Len(calls) :
            /\ calls[i].method = "VerifyHeader"
            /\ calls[i].arg = headers[i]
       /\ \A i \in 1 .. Len(delivered) : delivered[i] = calls[i].err

\* The caller cancelled between the worker's test of the cancel channel and
\* its dispatch: one call was started and one result placed after the cancel,
\* the two results differ, and the rest of the batch was left alone.
C36_Witness ==
  /\ onSplitPath /\ worker.pc = "done"
  /\ worker.callsAfterCancel = 1
  /\ worker.afterCancel = 1
  /\ Len(headers) = MaxBatch
  /\ Len(delivered) = 2
  /\ delivered[1] # delivered[2]


\* ------------------------------------------------------------------ C37
NonDecreasing(hs) ==
  \A i \in 1 .. Len(hs) : \A j \in 1 .. Len(hs) : i < j => hs[i].number <= hs[j].number

\* the whole batch went to one VerifyHeaders call of this engine
bulkForwardedTo(engine) ==
  /\ worker.pc = "bulk"
  /\ worker.chans = engine
  /\ Len(calls) = 1
  /\ calls[1].engine = engine /\ calls[1].method = "VerifyHeaders"
  /\ calls[1].arg = headers

C38_PathsAgree ==
  /\ (ret.op \in InlineOps /\ calls # <<>>)
       => calls[1].engine = selectEngine(ret.number)
  /\ (ret.op \in SelectingOps /\ calls # <<>>)
       => LET n == SelectedNumber(ret.op, ret.number)
              engine == calls[Len(calls)].engine
          IN /\ engine = AuthorEngine(n)
             /\ engine = VerifyHeaderEngine(n)
             /\ engine = VerifyUnclesEngine(n)

\* Author on block H called the PoA engine on an instance whose transition
\* event is out and whose last dispatch line names the PoS engine.
C38_Witness ==
  /\ ret.op = "Author"
  /\ ret.number = transitionBlock
  /\ transitionLogged
  /\ lastLoggedEngine = "PoS"
  /\ OneCall(PoA, "Author")


\* ------------------------------------------------------------------ C39
\* Prepare at the transition block has returned
preparedAtTransition == ret.op = "Prepare" /\ ret.number = transitionBlock

\* C39: after Prepare at number H the header's extra is the same value
\* whatever extra the header came with (none, a PoS payload, or the extra of
\* an earlier Prepare): nothing of the earlier content is left, its length is
\* that of the transition extra, and on a header that was already prepared
\* extra is what it was.
C39_ExtraOverwritten ==
  preparedAtTransition
    => /\ header.extra = ExpectedExtra
       /\ Len(header.extra) = extraVanity + Len(initialSigners) * AddressLength + extraSeal
       /\ \A before \in CallerExtras :
            ret.extraBefore = before
              => \A i \in 1 .. Len(before) : header.extra[i] # before[i]
       /\ ret.extraBefore = ExpectedExtra => header.extra = ret.extraBefore

\* Prepare at H was called again on the header a failed Prepare at H had
\* left prepared, and this time the PoA engine accepted it.
C39_Witness ==
  /\ preparedAtTransition
  /\ ret.extraBefore = ExpectedExtra
  /\ ret.err = Nil
  /\ header.extra = ret.extraBefore
  /\ OneCall(PoA, "Prepare")

====
